---- MODULE Spec2Model ----
(***************************************************************************)
(* real-time-data-stream: the distributed batch scheduler                  *)
(* (StockDataGenerator.generate_distributed_trades), the bulk loader       *)
(* (StockDataInserter), the generation loop (run_stock_data_inserter) and  *)
(* the per-connection tick stream coordinator (stream_realtime_stock_data, *)
(* StockStreamer).                                                         *)
(*                                                                         *)
(* Time is kept in integers.  A float timestamp is an integer number of    *)
(* tenths of a microsecond (Tenths); a datetime is an integer number of    *)
(* microseconds, as Python's datetime holds it.                            *)
(***************************************************************************)
EXTENDS Integers, Sequences, FiniteSets, TLC

VARIABLES
    \* ---- StockDataGenerator.generate_distributed_trades ----
    sched_pc,                       \* position inside the call
    trade_transaction_per_second,   \* its argument (the total count)
    base_time,                      \* datetime.now() at entry, microseconds
    remaining_size,
    second_sizes,
    second,                         \* loop index of both for-loops
    all_trades,
    tickers,                        \* StockDataGenerator.tickers (configuration)
    trade_types,                    \* StockDataGenerator.trade_types (configuration)
    market_code,                    \* StockDataGenerator.market_code (configuration)
    currency_code,                  \* StockDataGenerator.currency_code (configuration)
    data_ranges,                    \* configuration stock_generator.data_ranges
    now,                            \* the wall clock, microseconds
    \* ---- run_stock_data_inserter / StockDataInserter ----
    gen_tasks,                      \* background tasks added by POST /stock/generate
    gen_pc,                         \* position of the generation loop
    min_batch_size,                 \* configuration
    max_size,                       \* trade_transaction_per_second * max_batch_multiplier
    random_batch_size,
    trades,                         \* argument of insert_trades_batch
    inserted_count,                 \* its return value (None before it returns)
    gen_error,                      \* the exception in flight / caught in this cycle
    primary_failed,                 \* this insert went through the except branch
    store,                          \* rows of table stock_trades
    pool_free,                      \* free members of db_pool.pool
    \* ---- stream_realtime_stock_data / StockStreamer, per connection ----
    h_pc,                           \* position of the connection handler
    ws_state,                       \* the client's end of the websocket
    first_msg,                      \* the first control message received
    tick_update,                    \* the listen loop's last tick_update
    ticker,                         \* StockStreamer.ticker
    tick,                           \* StockStreamer.tick
    listen_pc,                      \* tick_listen_task
    push_pc,                        \* tick_stream_task
    queried,                        \* the ticker handed to the push loop's query
    result,                         \* rows fetched by the push loop's query
    sent,                           \* the last message sent to the client
    listen_timeouts,                \* consecutive timeouts of the listen loop
    push_error,                     \* the exception that ended the push loop
    teardowns                       \* runs of the handler's finally block

configVars == <<tickers, trade_types, market_code, currency_code, data_ranges>>
schedVars == <<sched_pc, trade_transaction_per_second, base_time, remaining_size,
               second_sizes, second, all_trades, configVars, now>>
genVars   == <<gen_tasks, gen_pc, min_batch_size, max_size, random_batch_size, trades,
               inserted_count, gen_error, primary_failed>>
dbVars    == <<store, pool_free>>
connVars  == <<h_pc, ws_state, first_msg, tick_update, ticker, tick, listen_pc, push_pc, queried,
               result, sent, listen_timeouts, push_error, teardowns>>
vars      == <<schedVars, genVars, dbVars, connVars>>

None == "None"
\* None where the other values are integers.
NoInt == 0 - 1

(***************************************************************************)
(* Bounds of the model and program constants.                              *)
(***************************************************************************)
\* The largest total count handed to the scheduler on its own.
MaxTotal == 6
\* The store holds at most this many rows; beyond it every write fails.
MaxStore == 2
\* The largest number of consecutive listen timeouts that is counted.
MaxTimeouts == 2

\* range(9): the seconds allocated at random.
RandomSeconds == 9
\* rng.uniform(0, 0.999): the exclusive upper end, in tenths of a microsecond.
JitterHigh == 9990000
\* Tenths of a microsecond in a second, and in a microsecond.
TenthsPerSecond == 10000000
TenthsPerMicro == 10
MicrosPerSecond == 1000000

Max(a, b) == IF a >= b THEN a ELSE b

(***************************************************************************)
(* The distributed batch scheduler.                                        *)
(***************************************************************************)

\* rng.uniform(0, 0.999) draws a float of [0, 0.999): its low end, which the
\* draw includes, and its largest value.
JitterDraws == {0, JitterHigh - 1}

\* random.randint(a, b): any integer of [a, b]; ValueError when the range is empty.
randint(a, b) == a..b

\* datetime.fromtimestamp(t, tz=UTC): t rounded to the nearest microsecond,
\* a tie going to the even one (round-half-even).
fromtimestamp(t) ==
    LET q == t \div TenthsPerMicro
        r == t % TenthsPerMicro
    IN  IF r * 2 < TenthsPerMicro THEN q
        ELSE IF r * 2 > TenthsPerMicro THEN q + 1
        ELSE IF q % 2 = 0 THEN q ELSE q + 1

\* datetime.timestamp(): the float of a datetime.
timestamp(dt) == dt * TenthsPerMicro

\* uuid4(): an identifier no row of the store and no trade of the batch carries;
\* the least such natural stands for it.
uuid4(used) == CHOOSE n \in 1..(Cardinality(used) + 1) : n \notin used

UsedIds(rows) == {rows[i].trade_id : i \in 1..Len(rows)}

\* uuid7(): likewise for event_id.
uuid7(used) == CHOOSE n \in 1..(Cardinality(used) + 1) : n \notin used

UsedEventIds(rows) == {rows[i].event_id : i \in 1..Len(rows)}

\* lines 222-230: one iteration of the allocation loop, size being the draw.
max_for_this_second == Max(1, remaining_size \div 3)

\* time_offsets without the + 1 of line 246.
time_offsets_NoShift(sec, time_within_second) == sec * TenthsPerSecond + time_within_second

\* line 246: time_offsets = second + 1 + time_within_second.
time_offsets(sec, time_within_second) == (sec + 1) * TenthsPerSecond + time_within_second

\* A price is an integer number of thousandths (mills) of a currency unit.
MillsPerCent == 10
\* price: Field(gt=0, le=10000), in mills; volume: Field(gt=0, le=1000000).
PriceLe == 10000000
VolumeLe == 1000000
\* ticker: max_length=10; market_code: max_length=20; currency_code: 3.
TickerMaxLength == 10
MarketCodeMaxLength == 20
CurrencyCodeLength == 3

\* rng.uniform(low, high) draws a float of [low, high): its low end, which the
\* draw includes, a value that rounds to the low end, and its largest value;
\* low itself when the range is empty.
uniform(low, high) == IF low >= high THEN {low} ELSE {low, low + 4, high - 1}

\* rng.integers(low, high): any integer of [low, high).
integers(low, high) == low..(high - 1)

\* np.round(x, 2) and round(v, 2): to the nearest cent, a tie going to the
\* even one.
round2(v) ==
    LET q == v \div MillsPerCent
        r == v % MillsPerCent
    IN  MillsPerCent * (IF r * 2 < MillsPerCent THEN q
                        ELSE IF r * 2 > MillsPerCent THEN q + 1
                        ELSE IF q % 2 = 0 THEN q ELSE q + 1)

\* str.upper() on the strings of the model.
upper(v) ==
    CASE v = "aapl" -> "AAPL"
      [] v = "usd" -> "USD"
      [] OTHER -> v

\* The Field constraints with le=10000 of price missing.
FieldsValid_NoPriceCeiling(tk, price, volume, trade_type, mc, cc) ==
    /\ Len(tk) >= 1 /\ Len(tk) <= TickerMaxLength
    /\ price > 0
    /\ volume > 0 /\ volume <= VolumeLe
    /\ trade_type \in {"BUY", "SELL"}
    /\ Len(mc) >= 1 /\ Len(mc) <= MarketCodeMaxLength
    /\ Len(cc) = CurrencyCodeLength

\* lines 31-41: the Field constraints of TradeData, which pydantic tests
\* before the validators of lines 43-59 run; a value outside them raises
\* ValidationError.
FieldsValid(tk, price, volume, trade_type, mc, cc) ==
    /\ Len(tk) >= 1 /\ Len(tk) <= TickerMaxLength
    /\ price > 0 /\ price <= PriceLe
    /\ volume > 0 /\ volume <= VolumeLe
    /\ trade_type \in {"BUY", "SELL"}
    /\ Len(mc) >= 1 /\ Len(mc) <= MarketCodeMaxLength
    /\ Len(cc) = CurrencyCodeLength

\* lines 255-258: the values sampled for one record.
Samples ==
    [ jitter     : JitterDraws,
      ticker     : 1..Len(tickers),
      price      : {round2(x) : x \in uniform(data_ranges.price_min, data_ranges.price_max)},
      volume     : integers(data_ranges.volume_min, data_ranges.volume_max + 1),
      trade_type : 1..Len(trade_types) ]

\* TradeData(...) of lines 267-277 passes the Field constraints for sample s.
Constructs(s) ==
    FieldsValid(tickers[s.ticker], s.price, s.volume, trade_types[s.trade_type],
                market_code, currency_code)

\* lines 262-277: one TradeData of bucket sec, after its validators
\* (lines 43-59: ticker and currency_code upper-cased, price rounded).  The
\* field second is not the record's: it keeps the bucket the record was made for.
TradeData(sec, s, eid, tid) ==
    [ event_time    |-> fromtimestamp(timestamp(base_time) + time_offsets(sec, s.jitter)),
      event_id      |-> eid,
      ticker        |-> upper(tickers[s.ticker]),
      price         |-> round2(s.price),
      volume        |-> s.volume,
      trade_type    |-> trade_types[s.trade_type],
      trade_id      |-> tid,
      market_code   |-> market_code,
      currency_code |-> upper(currency_code),
      second        |-> sec ]

RECURSIVE BuildTrades_Prepend(_, _, _, _)
\* The inner loop putting each new record in front of the list.
BuildTrades_Prepend(sec, size, samples, acc) ==
    IF Len(acc) - Len(all_trades) = size THEN acc
    ELSE LET i == Len(acc) - Len(all_trades) + 1
         IN  BuildTrades_Prepend(sec, size, samples,
                 <<TradeData(sec, samples[i],
                             uuid7(UsedEventIds(store) \cup UsedEventIds(acc)),
                             uuid4(UsedIds(store) \cup UsedIds(acc)))>> \o acc)

RECURSIVE BuildTrades(_, _, _, _)
\* lines 261-277: the inner loop over one bucket, appending to acc.
BuildTrades(sec, size, samples, acc) ==
    IF Len(acc) - Len(all_trades) = size THEN acc
    ELSE LET i == Len(acc) - Len(all_trades) + 1
         IN  BuildTrades(sec, size, samples,
                 Append(acc, TradeData(sec, samples[i],
                                       uuid7(UsedEventIds(store) \cup UsedEventIds(acc)),
                                       uuid4(UsedIds(store) \cup UsedIds(acc)))))

\* env.toml is not part of the sources: a configuration of one ticker, one
\* side, and ranges of a single price (150.25) and a single volume.
DefaultConfig ==
    /\ tickers = <<"AAPL">>
    /\ trade_types = <<"BUY">>
    /\ market_code = "NASDAQ"
    /\ currency_code = "USD"
    /\ data_ranges = [price_min |-> 150250, price_max |-> 150250,
                      volume_min |-> 100, volume_max |-> 100]

\* The total counts the scheduler is called with on its own.
TotalCounts == (0 - 1)..MaxTotal

\* The scheduler before a call.
SchedIdle ==
    /\ sched_pc = "idle"
    /\ trade_transaction_per_second = 0
    /\ base_time = 0
    /\ remaining_size = 0
    /\ second_sizes = <<>>
    /\ second = 0
    /\ all_trades = <<>>

\* The call is over: its locals are gone.
LeaveScheduler ==
    /\ sched_pc' = "idle"
    /\ trade_transaction_per_second' = 0
    /\ base_time' = 0
    /\ remaining_size' = 0
    /\ second_sizes' = <<>>
    /\ second' = 0
    /\ all_trades' = <<>>

\* lines 214-219: entry of generate_distributed_trades(n).
EnterScheduler(n) ==
    /\ trade_transaction_per_second' = n
    /\ base_time' = now
    /\ remaining_size' = n
    /\ second_sizes' = <<>>
    /\ second' = 0
    /\ all_trades' = <<>>
    /\ sched_pc' = "alloc"

\* AllocSecond without line 230 (remaining_size is never decremented).
AllocSecond_NoDecrement ==
    /\ sched_pc = "alloc"
    /\ second < RandomSeconds
    /\ IF remaining_size <= 1
       THEN second_sizes' = Append(second_sizes, 0)
       ELSE \E size_for_this_second \in randint(0, max_for_this_second) :
                second_sizes' = Append(second_sizes, size_for_this_second)
    /\ second' = second + 1
    /\ UNCHANGED <<sched_pc, trade_transaction_per_second, base_time, remaining_size,
                   all_trades, configVars, now>>

\* lines 222-230: one of the first nine seconds.
AllocSecond ==
    /\ sched_pc = "alloc"
    /\ second < RandomSeconds
    /\ IF remaining_size <= 1
       THEN /\ second_sizes' = Append(second_sizes, 0)
            /\ UNCHANGED remaining_size
       ELSE \E size_for_this_second \in randint(0, max_for_this_second) :
                /\ second_sizes' = Append(second_sizes, size_for_this_second)
                /\ remaining_size' = remaining_size - size_for_this_second
    /\ second' = second + 1
    /\ UNCHANGED <<sched_pc, trade_transaction_per_second, base_time, all_trades,
                   configVars, now>>

\* line 233: the tenth second takes what remains.
last_second_size == remaining_size

AllocLast ==
    /\ sched_pc = "alloc"
    /\ second = RandomSeconds
    /\ second_sizes' = Append(second_sizes, last_second_size)
    /\ second' = 0
    /\ sched_pc' = "gen"
    /\ UNCHANGED <<trade_transaction_per_second, base_time, remaining_size, all_trades,
                   configVars, now>>

\* lines 242-277: one bucket of the enumerate loop; a TradeData that does not
\* pass its Field constraints raises ValidationError out of the call.
GenSecond ==
    /\ sched_pc = "gen"
    /\ second < Len(second_sizes)
    /\ LET size == second_sizes[second + 1]
       IN  IF size > 0
           THEN \E samples \in [1..size -> Samples] :
                    IF \A i \in 1..size : Constructs(samples[i])
                    THEN /\ all_trades' = BuildTrades(second, size, samples, all_trades)
                         /\ second' = second + 1
                         /\ UNCHANGED sched_pc
                    ELSE /\ sched_pc' = "raised"
                         /\ UNCHANGED <<all_trades, second>>
           ELSE /\ second' = second + 1
                /\ UNCHANGED <<all_trades, sched_pc>>
    /\ UNCHANGED <<trade_transaction_per_second, base_time, remaining_size,
                   second_sizes, configVars, now>>

\* line 282: return all_trades.
SchedReturn ==
    /\ sched_pc = "gen"
    /\ second = Len(second_sizes)
    /\ sched_pc' = "return"
    /\ UNCHANGED <<trade_transaction_per_second, base_time, remaining_size,
                   second_sizes, second, all_trades, configVars, now>>

SchedStep == AllocSecond \/ AllocLast \/ GenSecond \/ SchedReturn

(***************************************************************************)
(* The bulk loader (StockDataInserter) and the generation loop             *)
(* (run_stock_data_inserter).                                              *)
(***************************************************************************)

\* create_pool(max_size=20).
PoolMaxSize == 20
\* The clock is followed for this many sleeps of the generation loop; after
\* that it stands still.
MaxSleeps == 1
\* env.toml, stock_generator.generation.distribution_seconds (the reference value).
distribution_seconds == 10

\* (min_batch_size, trade_transaction_per_second * max_batch_multiplier) as the
\* configuration may give them: the range 0..2 and the empty range 3..2.
BatchRanges == {<<0, 2>>, <<3, 2>>}

Range(q) == {q[i] : i \in 1..Len(q)}

\* The database accepts the rows; it refuses them once the table would pass MaxStore.
StoreAccepts(rows) == Len(store) + Len(rows) <= MaxStore

\* lines 61-73: TradeData.to_tuple().
to_tuple(t) ==
    <<t.event_time, t.event_id, t.ticker, t.price, t.volume, t.trade_type, t.trade_id,
      t.market_code, t.currency_code>>

\* lines 309-319 and 335-340: the column each item of a tuple goes to.
Row(tp) ==
    [ event_time |-> tp[1], event_id |-> tp[2], ticker |-> tp[3], price |-> tp[4],
      volume |-> tp[5], trade_type |-> tp[6], trade_id |-> tp[7], market_code |-> tp[8],
      currency_code |-> tp[9] ]

\* A row of stock_trades as the bulk loader writes it.
StoredRow(time, id, price) ==
    Row(<<time, id, "AAPL", price, 100, "BUY", id, "NASDAQ", "USD">>)

\* trade_tuples = [trade.to_tuple() for trade in trades], appended to the table.
InsertRows(rows) == store' = store \o [i \in 1..Len(rows) |-> Row(to_tuple(rows[i]))]

\* async with get_connection() as conn: entered.
Acquire == pool_free > 0 /\ pool_free' = pool_free - 1
\* ... and left.
Release == pool_free' = pool_free + 1

genLocals == <<min_batch_size, max_size, gen_tasks>>

\* POST /stock/generate is counted up to this many calls.
MaxTasks == 2

\* main.py, generate_stock_data: background_tasks.add_task(run_stock_data_inserter),
\* on every call, whether or not a loop is already running; stock_generator.py
\* lines 393-414: the loop's set-up.  gen_tasks counts the loops started (none
\* of them returns); the steps of the first one are followed.
generate_stock_data ==
    /\ gen_tasks < MaxTasks
    /\ gen_tasks' = gen_tasks + 1
    /\ gen_pc' = IF gen_pc = "off" THEN "pick" ELSE gen_pc
    /\ UNCHANGED <<min_batch_size, max_size, random_batch_size, trades, inserted_count,
                   gen_error, primary_failed, schedVars, dbVars>>

\* lines 419-421: random_batch_size = random.randint(min_size, max_size), which
\* raises ValueError on an empty range.
PickBatchSize ==
    /\ gen_pc = "pick"
    /\ IF randint(min_batch_size, max_size) = {}
       THEN /\ gen_error' = "ValueError"
            /\ gen_pc' = "handler"
            /\ UNCHANGED random_batch_size
       ELSE /\ \E n \in randint(min_batch_size, max_size) : random_batch_size' = n
            /\ gen_pc' = "generate"
            /\ UNCHANGED gen_error
    /\ UNCHANGED <<genLocals, trades, inserted_count, primary_failed, schedVars, dbVars>>

\* line 378: trades = generator.generate_distributed_trades(random_batch_size), entered.
CallScheduler ==
    /\ gen_pc = "generate"
    /\ sched_pc = "idle"
    /\ EnterScheduler(random_batch_size)
    /\ UNCHANGED <<configVars, now, genVars, dbVars>>

\* SchedulerReturned in which a call that raised still hands the records it had
\* built to insert_trades_batch.
SchedulerReturned_InsertsPartialBatch ==
    /\ gen_pc = "generate"
    /\ sched_pc \in {"return", "raised"}
    /\ trades' = all_trades
    /\ gen_pc' = "insert"
    /\ gen_error' = IF sched_pc = "return" THEN gen_error ELSE "ValidationError"
    /\ LeaveScheduler
    /\ UNCHANGED <<genLocals, random_batch_size, inserted_count, primary_failed,
                   configVars, now, dbVars>>

\* line 378, the call is over (its locals are gone): it returned, and line 381
\* calls insert_trades_batch(trades); or it raised, and the exception leaves
\* generate_distributed_and_insert for the loop's try.
SchedulerReturned ==
    /\ gen_pc = "generate"
    /\ sched_pc \in {"return", "raised"}
    /\ IF sched_pc = "return"
       THEN /\ trades' = all_trades
            /\ gen_pc' = "insert"
            /\ UNCHANGED gen_error
       ELSE /\ gen_error' = "ValidationError"
            /\ gen_pc' = "handler"
            /\ UNCHANGED trades
    /\ LeaveScheduler
    /\ UNCHANGED <<genLocals, random_batch_size, inserted_count, primary_failed,
                   configVars, now, dbVars>>

\* The except branch of insert_trades_batch re-raising instead of falling back.
PrimaryFailed_Reraise ==
    /\ primary_failed' = TRUE
    /\ gen_error' = "Exception"
    /\ gen_pc' = "handler"
    /\ UNCHANGED <<genLocals, random_batch_size, trades, inserted_count, schedVars, store>>

\* lines 327-331: the except branch of insert_trades_batch, which calls
\* _insert_trades_fallback(trades).
PrimaryFailed ==
    /\ primary_failed' = TRUE
    /\ gen_pc' = "fallback"
    /\ UNCHANGED <<genLocals, random_batch_size, trades, inserted_count, gen_error,
                   schedVars, store>>

\* insert_trades_batch without the test of lines 291-293.
InsertTradesBatch_NoEmptyTest ==
    /\ gen_pc = "insert"
    /\ \/ /\ Acquire
          /\ gen_pc' = "copy"
          /\ UNCHANGED <<genLocals, random_batch_size, trades, inserted_count,
                         gen_error, primary_failed, schedVars, store>>
       \/ PrimaryFailed /\ UNCHANGED pool_free

\* lines 289-300: insert_trades_batch up to the connection; an empty batch
\* returns 0, and get_connection() either yields a pool member or raises.
InsertTradesBatch ==
    /\ gen_pc = "insert"
    /\ IF trades = <<>>
       THEN /\ inserted_count' = 0
            /\ gen_pc' = "sleep"
            /\ UNCHANGED <<genLocals, random_batch_size, trades, gen_error,
                           primary_failed, schedVars, dbVars>>
       ELSE \/ /\ Acquire
               /\ gen_pc' = "copy"
               /\ UNCHANGED <<genLocals, random_batch_size, trades, inserted_count,
                              gen_error, primary_failed, schedVars, store>>
            \/ PrimaryFailed /\ UNCHANGED pool_free

\* lines 299-325, the body of the try: conn.copy_records_to_table stores all
\* rows, and len(trades) is returned; or the COPY raises and leaves no row; or
\* the COPY stores all rows and leaving `async with get_connection()` (the
\* pool resets the connection on release) raises, which the except branch of
\* line 327 catches like any failure of the COPY.
CopyRecords ==
    /\ gen_pc = "copy"
    /\ Release
    /\ \/ /\ StoreAccepts(trades)
          /\ InsertRows(trades)
          /\ inserted_count' = Len(trades)
          /\ gen_pc' = "sleep"
          /\ UNCHANGED <<genLocals, random_batch_size, trades, gen_error,
                         primary_failed, schedVars>>
       \/ PrimaryFailed
       \/ /\ StoreAccepts(trades)
          /\ InsertRows(trades)
          /\ primary_failed' = TRUE
          /\ gen_pc' = "fallback"
          /\ UNCHANGED <<genLocals, random_batch_size, trades, inserted_count,
                         gen_error, schedVars>>

\* The fallback's except branch swallowing the error (line 350 missing).
FallbackFailed_Swallow ==
    /\ inserted_count' = 0
    /\ gen_pc' = "sleep"
    /\ UNCHANGED <<genLocals, random_batch_size, trades, gen_error, primary_failed,
                   schedVars, store>>

\* lines 348-350: the fallback's except branch: log and raise, through
\* insert_trades_batch and generate_distributed_and_insert to the loop's try.
FallbackFailed ==
    /\ gen_error' = "Exception"
    /\ gen_pc' = "handler"
    /\ UNCHANGED <<genLocals, random_batch_size, trades, inserted_count, primary_failed,
                   schedVars, store>>

\* lines 342-343: _insert_trades_fallback up to the connection.
FallbackAcquire ==
    /\ gen_pc = "fallback"
    /\ \/ /\ Acquire
          /\ gen_pc' = "executemany"
          /\ UNCHANGED <<genLocals, random_batch_size, trades, inserted_count,
                         gen_error, primary_failed, schedVars, store>>
       \/ FallbackFailed /\ UNCHANGED pool_free

\* The fallback storing only the first row of the batch.
FallbackRows_FirstOnly == SubSeq(trades, 1, 1)

\* line 344: the rows the fallback inserts.
FallbackRows == trades

\* lines 344-347: conn.executemany(insert_query, trade_tuples): all rows are in
\* the table and len(trades) is returned, or it raises and leaves no row.
FallbackExecutemany ==
    /\ gen_pc = "executemany"
    /\ Release
    /\ \/ /\ StoreAccepts(FallbackRows)
          /\ InsertRows(FallbackRows)
          /\ inserted_count' = Len(trades)
          /\ gen_pc' = "sleep"
          /\ UNCHANGED <<genLocals, random_batch_size, trades, gen_error,
                         primary_failed, schedVars>>
       \/ FallbackFailed

\* The loop's handler letting the error out of run_stock_data_inserter.
CycleHandler_Reraise ==
    /\ gen_pc = "handler"
    /\ gen_pc' = "off"
    /\ UNCHANGED <<genLocals, random_batch_size, trades, inserted_count, gen_error,
                   primary_failed, schedVars, dbVars>>

\* lines 434-435: except Exception: log the error; the cycle goes on to the sleep.
CycleHandler ==
    /\ gen_pc = "handler"
    /\ gen_pc' = "sleep"
    /\ UNCHANGED <<genLocals, random_batch_size, trades, inserted_count, gen_error,
                   primary_failed, schedVars, dbVars>>

\* A round trip to the store (awaiting a pool member, the COPY, the INSERTs),
\* in microseconds.
StoreRoundTrip == 250000

\* The clock is read once per cycle (line 214).  What the cycle has taken when
\* it reaches its sleep: a round trip if insert_trades_batch went to the store
\* (lines 299-331), less than the clock shows otherwise.
CycleDuration == IF primary_failed \/ inserted_count > 0 THEN StoreRoundTrip ELSE 0

\* The clock after a cycle that took work microseconds and the
\* asyncio.sleep(distribution_seconds) that follows it; it is followed up to
\* MaxSleeps sleeps.
Slept(work) ==
    IF now + work + distribution_seconds * MicrosPerSecond
          <= MaxSleeps * distribution_seconds * MicrosPerSecond + MicrosPerSecond
    THEN now + work + distribution_seconds * MicrosPerSecond
    ELSE now

\* lines 416-438: the cycle is over; await asyncio.sleep(distribution_seconds),
\* then the next iteration of while True.
SleepThenNextCycle ==
    /\ gen_pc = "sleep"
    /\ now' = Slept(CycleDuration)
    /\ gen_pc' = "pick"
    /\ random_batch_size' = NoInt
    /\ trades' = <<>>
    /\ inserted_count' = NoInt
    /\ gen_error' = None
    /\ primary_failed' = FALSE
    /\ UNCHANGED <<genLocals, sched_pc, trade_transaction_per_second, base_time,
                   remaining_size, second_sizes, second, all_trades, configVars, dbVars>>

\* The steps of generate_distributed_trades inside the generation loop.
GenSchedStep ==
    /\ gen_pc = "generate"
    /\ SchedStep
    /\ UNCHANGED <<genVars, dbVars>>

\* One step of the generation loop's task.
GenLoopStep ==
    \/ PickBatchSize
    \/ CallScheduler
    \/ GenSchedStep
    \/ SchedulerReturned
    \/ InsertTradesBatch
    \/ CopyRecords
    \/ FallbackAcquire
    \/ FallbackExecutemany
    \/ CycleHandler
    \/ SleepThenNextCycle

Conns == {"c1", "c2"}

\* The generation loop and the bulk loader before POST /stock/generate.
GenIdle ==
    /\ gen_tasks = 0
    /\ gen_pc = "off"
    /\ min_batch_size = 0
    /\ max_size = 0
    /\ random_batch_size = NoInt
    /\ trades = <<>>
    /\ inserted_count = NoInt
    /\ gen_error = None
    /\ primary_failed = FALSE

\* No websocket connection.
ConnIdle ==
    /\ h_pc = [c \in Conns |-> "closed"]
    /\ ws_state = [c \in Conns |-> "closed"]
    /\ first_msg = [c \in Conns |-> <<>>]
    /\ tick_update = [c \in Conns |-> <<>>]
    /\ ticker = [c \in Conns |-> None]
    /\ tick = [c \in Conns |-> NoInt]
    /\ listen_pc = [c \in Conns |-> "none"]
    /\ push_pc = [c \in Conns |-> "none"]
    /\ queried = [c \in Conns |-> None]
    /\ result = [c \in Conns |-> <<>>]
    /\ sent = [c \in Conns |-> <<>>]
    /\ listen_timeouts = [c \in Conns |-> 0]
    /\ push_error = [c \in Conns |-> None]
    /\ teardowns = [c \in Conns |-> 0]

(***************************************************************************)
(* The tick stream coordinator: stream_realtime_stock_data (main.py) and   *)
(* StockStreamer (stock_realtime_socket.py, imported by main.py as         *)
(* TickStreamer), one handler and two tasks per connection.                *)
(***************************************************************************)

Symbols == {"AAPL", "MSFT"}
Ticks == {1, 2}

\* The frames a client may send: a control message {ticker, tick}, one without
\* its tick, one without its ticker, and text that is no JSON.
ControlMessages == [ticker : Symbols, tick : Ticks]
NoTickMessages == [ticker : Symbols]
NoTickerMessages == [tick : Ticks]
NotJson == [not_json |-> TRUE]
MalformedFrames == NoTickMessages \cup NoTickerMessages \cup {NotJson}

\* websocket.receive_json() returns the frame's dict, or raises on text that is
\* no JSON.
ReceiveJsonRaises(frame) == "not_json" \in DOMAIN frame
HasKey(frame, key) == ~ReceiveJsonRaises(frame) /\ key \in DOMAIN frame

\* SELECT price FROM stock_trades WHERE ticker = $1 ORDER BY event_time DESC
\* LIMIT 1: the possible results (rows of equal event_time come in any order).
fetch(sym) ==
    LET rows == {r \in Range(store) : r.ticker = sym}
        latest == {r \in rows : \A o \in rows : o.event_time <= r.event_time}
    IN  IF rows = {} THEN {<<>>} ELSE {<<[price |-> r.price]>> : r \in latest}

\* lines 73-78: a client connects, the handler accepts and awaits the first
\* message.
Connect(c) ==
    /\ h_pc[c] = "closed"
    /\ h_pc' = [h_pc EXCEPT ![c] = "await_first"]
    /\ ws_state' = [ws_state EXCEPT ![c] = "open"]
    /\ UNCHANGED <<first_msg, tick_update, ticker, tick, listen_pc, push_pc, queried, result, sent, push_error, teardowns,
                   listen_timeouts, pool_free, store>>

\* The client closes its end, or the connection is lost.
ClientDisconnect(c) ==
    /\ h_pc[c] \in {"await_first", "gather"}
    /\ ws_state[c] = "open"
    /\ ws_state' = [ws_state EXCEPT ![c] = "closed"]
    /\ UNCHANGED <<h_pc, first_msg, tick_update, ticker, tick, listen_pc, push_pc, queried, result, sent, push_error, teardowns,
                   listen_timeouts, pool_free, store>>

\* The subscription taken from the first message with a fixed tick of 1.
InitialSubscription_DefaultTick(frame) == [ticker |-> frame.ticker, tick |-> 1]

\* lines 79-80, 88: ticker and tick of the first message, handed to TickStreamer.
InitialSubscription(frame) == [ticker |-> frame.ticker, tick |-> frame.tick]

\* lines 78-95: the first message arrives; the streamer and both tasks are
\* created and the handler awaits gather(tick_listen_task, tick_stream_task).
HandlerFirstMessage(c) ==
    /\ h_pc[c] = "await_first"
    /\ ws_state[c] = "open"
    /\ \E frame \in ControlMessages :
         /\ first_msg' = [first_msg EXCEPT ![c] = <<frame>>]
         /\ ticker' = [ticker EXCEPT ![c] = InitialSubscription(frame).ticker]
         /\ tick' = [tick EXCEPT ![c] = InitialSubscription(frame).tick]
    /\ listen_pc' = [listen_pc EXCEPT ![c] = "recv"]
    /\ push_pc' = [push_pc EXCEPT ![c] = "acquire"]
    /\ h_pc' = [h_pc EXCEPT ![c] = "gather"]
    /\ UNCHANGED <<ws_state, tick_update, queried, result, sent, push_error, teardowns, listen_timeouts, pool_free, store>>

\* lines 78-80 raising (the client is gone, the text is no JSON, a key is
\* missing): the exception leaves the handler, which has started no task.
HandlerFirstMessageRaises(c) ==
    /\ h_pc[c] = "await_first"
    /\ \/ ws_state[c] = "closed"
       \/ ws_state[c] = "open" /\ \E frame \in MalformedFrames : TRUE
    /\ h_pc' = [h_pc EXCEPT ![c] = "done"]
    /\ ws_state' = [ws_state EXCEPT ![c] = "closed"]
    /\ UNCHANGED <<first_msg, tick_update, ticker, tick, listen_pc, push_pc, queried, result, sent, push_error, teardowns,
                   listen_timeouts, pool_free, store>>

\* The handler returning from gather as soon as one of the two tasks has ended.
HandlerTeardown_FirstCompleted(c) ==
    /\ h_pc[c] = "gather"
    /\ listen_pc[c] = "done" \/ push_pc[c] = "done"
    /\ teardowns' = [teardowns EXCEPT ![c] = @ + 1]
    /\ h_pc' = [h_pc EXCEPT ![c] = "done"]
    /\ ws_state' = [ws_state EXCEPT ![c] = "closed"]
    /\ UNCHANGED <<first_msg, tick_update, ticker, tick, listen_pc, push_pc, queried, result, sent,
                   push_error, listen_timeouts, pool_free, store>>

\* lines 95, 102-114: gather returns once both tasks have finished; the finally
\* block cancels the finished tasks, gathers them and the handler returns.
HandlerTeardown(c) ==
    /\ h_pc[c] = "gather"
    /\ listen_pc[c] = "done"
    /\ push_pc[c] = "done"
    /\ teardowns' = [teardowns EXCEPT ![c] = @ + 1]
    /\ h_pc' = [h_pc EXCEPT ![c] = "done"]
    /\ ws_state' = [ws_state EXCEPT ![c] = "closed"]
    /\ UNCHANGED <<first_msg, tick_update, ticker, tick, listen_pc, push_pc, queried, result, sent,
                   push_error, listen_timeouts, pool_free, store>>

\* lines 95, 102-114 when the handler's own task is cancelled while it awaits
\* gather (the server shuts down): gather cancels both tasks, CancelledError is
\* no Exception and so passes the except clauses of both loops (the push loop
\* leaving its async with gives back the pool member it holds), and the finally
\* block cancels both tasks, awaits gather(*tasks, return_exceptions=True) and
\* the handler ends.
HandlerCancelled(c) ==
    /\ h_pc[c] = "gather"
    /\ listen_pc' = [listen_pc EXCEPT ![c] = "done"]
    /\ push_pc' = [push_pc EXCEPT ![c] = "done"]
    /\ pool_free' = IF push_pc[c] \in {"fetch", "send"} THEN pool_free + 1 ELSE pool_free
    /\ queried' = [queried EXCEPT ![c] = None]
    /\ result' = [result EXCEPT ![c] = <<>>]
    /\ teardowns' = [teardowns EXCEPT ![c] = @ + 1]
    /\ h_pc' = [h_pc EXCEPT ![c] = "done"]
    /\ ws_state' = [ws_state EXCEPT ![c] = "closed"]
    /\ UNCHANGED <<first_msg, tick_update, ticker, tick, sent, push_error, listen_timeouts, store>>

\* ListenUpdate writing one subscription shared by all connections.
ListenUpdate_SharedSubscription(c) ==
    /\ listen_pc[c] = "recv"
    /\ ws_state[c] = "open"
    /\ \E frame \in ControlMessages :
         /\ tick_update' = [tick_update EXCEPT ![c] = <<frame>>]
         /\ ticker' = [x \in Conns |-> frame.ticker]
         /\ tick' = [x \in Conns |-> frame.tick]
    /\ listen_timeouts' = [listen_timeouts EXCEPT ![c] = 0]
    /\ UNCHANGED <<h_pc, ws_state, first_msg, listen_pc, push_pc, queried, result, sent,
                   push_error, teardowns, pool_free, store>>

\* lines 39-44: a control message arrives and is applied.
ListenUpdate(c) ==
    /\ listen_pc[c] = "recv"
    /\ ws_state[c] = "open"
    /\ \E frame \in ControlMessages :
         /\ tick_update' = [tick_update EXCEPT ![c] = <<frame>>]
         /\ ticker' = [ticker EXCEPT ![c] = frame.ticker]
         /\ tick' = [tick EXCEPT ![c] = frame.tick]
    /\ listen_timeouts' = [listen_timeouts EXCEPT ![c] = 0]
    /\ UNCHANGED <<h_pc, ws_state, first_msg, listen_pc, push_pc, queried, result, sent, push_error, teardowns,
                   pool_free, store>>

\* lines 39-43, 50-52: the receive raises (the client is gone, or the text is no
\* JSON) or a key is missing (line 42 has run when only tick is missing):
\* except Exception logs and breaks, and the task ends.
ListenReceiveError(c) ==
    /\ listen_pc[c] = "recv"
    /\ \/ /\ ws_state[c] = "closed"
          /\ UNCHANGED <<ticker, tick_update>>
       \/ /\ ws_state[c] = "open"
          /\ \E frame \in MalformedFrames :
               /\ tick_update' = IF ReceiveJsonRaises(frame) THEN tick_update
                                 ELSE [tick_update EXCEPT ![c] = <<frame>>]
               /\ ticker' = IF HasKey(frame, "ticker")
                            THEN [ticker EXCEPT ![c] = frame.ticker]
                            ELSE ticker
    /\ listen_pc' = [listen_pc EXCEPT ![c] = "done"]
    /\ UNCHANGED <<h_pc, ws_state, first_msg, tick, push_pc, queried, result, sent, push_error, teardowns,
                   listen_timeouts, pool_free, store>>

\* The timeout handled like any other exception: the loop breaks.
ListenTimeout_Break(c) ==
    /\ listen_pc[c] = "recv"
    /\ ws_state[c] = "open"
    /\ listen_timeouts[c] < MaxTimeouts
    /\ listen_timeouts' = [listen_timeouts EXCEPT ![c] = @ + 1]
    /\ listen_pc' = [listen_pc EXCEPT ![c] = "done"]
    /\ UNCHANGED <<h_pc, ws_state, first_msg, tick_update, ticker, tick, push_pc, queried, result, sent, push_error, teardowns,
                   pool_free, store>>

\* lines 39-41, 46-48: no message within 60 seconds: asyncio.TimeoutError,
\* logged, continue.
ListenTimeout(c) ==
    /\ listen_pc[c] = "recv"
    /\ ws_state[c] = "open"
    /\ listen_timeouts[c] < MaxTimeouts
    /\ listen_timeouts' = [listen_timeouts EXCEPT ![c] = @ + 1]
    /\ UNCHANGED <<h_pc, ws_state, first_msg, tick_update, ticker, tick, listen_pc, push_pc, queried,
                   result, sent, push_error, teardowns, pool_free, store>>

\* lines 97-98: the push loop's except Exception: log, and the task ends.
PushEnds(c) == push_pc' = [push_pc EXCEPT ![c] = "done"]

\* ... e being the exception caught.
PushRaises(c, e) ==
    /\ PushEnds(c)
    /\ push_error' = [push_error EXCEPT ![c] = e]

\* lines 63-66: async with get_connection() as conn: a pool member, with which
\* conn.fetch(query, self.ticker) is called, or an error.
PushAcquire(c) ==
    /\ push_pc[c] = "acquire"
    /\ \/ /\ Acquire
          /\ queried' = [queried EXCEPT ![c] = ticker[c]]
          /\ push_pc' = [push_pc EXCEPT ![c] = "fetch"]
          /\ UNCHANGED push_error
       \/ /\ PushRaises(c, "PoolError")
          /\ UNCHANGED <<pool_free, queried>>
    /\ UNCHANGED <<h_pc, ws_state, first_msg, tick_update, ticker, tick, listen_pc, result, sent,
                   teardowns, listen_timeouts, store>>

\* lines 64-67: the query returns the latest row of the ticker or no row, or it
\* raises (which leaves the async with and ends the loop).
PushFetch(c) ==
    /\ push_pc[c] = "fetch"
    /\ \/ /\ \E rows \in fetch(queried[c]) : result' = [result EXCEPT ![c] = rows]
          /\ push_pc' = [push_pc EXCEPT ![c] = "send"]
          /\ UNCHANGED <<pool_free, queried, push_error>>
       \/ /\ PushRaises(c, "StoreError")
          /\ Release
          /\ queried' = [queried EXCEPT ![c] = None]
          /\ UNCHANGED result
    /\ UNCHANGED <<h_pc, ws_state, first_msg, tick_update, ticker, tick, listen_pc, sent,
                   teardowns, listen_timeouts, store>>

\* lines 87-94: the message sent when the query returned no row.
NoDataMessage(c) ==
    [type |-> "candle_tick", ticker |-> ticker[c], message |-> None,
     current_tick |-> tick[c]]

\* lines 71-84: the message sent when the query returned a row.
DataMessage(c) ==
    [type |-> "candle_tick", ticker |-> ticker[c],
     data |-> [high |-> result[c][1].price, low |-> result[c][1].price],
     current_tick |-> tick[c]]

\* PushSend in which a send that raises is passed over and the loop goes on.
PushSend_KeepsGoing(c) ==
    /\ push_pc[c] = "send"
    /\ Release
    /\ \/ /\ ws_state[c] = "open"
          /\ sent' = [sent EXCEPT ![c] =
                          <<[msg  |-> IF result[c] # <<>> THEN DataMessage(c)
                                      ELSE NoDataMessage(c),
                             rows |-> result[c], queried |-> queried[c]]>>]
       \/ UNCHANGED sent
    /\ push_pc' = [push_pc EXCEPT ![c] = "sleep"]
    /\ result' = [result EXCEPT ![c] = <<>>]
    /\ queried' = [queried EXCEPT ![c] = None]
    /\ UNCHANGED <<h_pc, ws_state, first_msg, tick_update, ticker, tick, listen_pc,
                   push_error, teardowns, listen_timeouts, store>>

\* lines 69-96: send_json of the message built from the result; the pool member
\* is released on leaving the async with, and the loop sleeps self.tick; a send
\* that raises (the client is gone, or the outbound side of the transport fails
\* while the client's end is still open) ends the loop.
PushSend(c) ==
    /\ push_pc[c] = "send"
    /\ Release
    /\ \/ /\ ws_state[c] = "open"
          /\ sent' = [sent EXCEPT ![c] =
                          <<[msg  |-> IF result[c] # <<>> THEN DataMessage(c)
                                      ELSE NoDataMessage(c),
                             rows |-> result[c], queried |-> queried[c]]>>]
          /\ push_pc' = [push_pc EXCEPT ![c] = "sleep"]
          /\ UNCHANGED push_error
       \/ /\ PushRaises(c, "TransportError")
          /\ UNCHANGED sent
    /\ result' = [result EXCEPT ![c] = <<>>]
    /\ queried' = [queried EXCEPT ![c] = None]
    /\ UNCHANGED <<h_pc, ws_state, first_msg, tick_update, ticker, tick, listen_pc, teardowns,
                   listen_timeouts, store>>

\* line 96: asyncio.sleep(self.tick) is over; the next iteration starts.
PushWake(c) ==
    /\ push_pc[c] = "sleep"
    /\ push_pc' = [push_pc EXCEPT ![c] = "acquire"]
    /\ UNCHANGED <<h_pc, ws_state, first_msg, tick_update, ticker, tick, listen_pc, queried, result,
                   sent, push_error, teardowns, listen_timeouts, pool_free, store>>

(***************************************************************************)
(* SpecSched: generate_distributed_trades called on its own, with any      *)
(* total count of TotalCounts at any clock reading of ClockDraws.          *)
(***************************************************************************)
ClockDraws == {0, 1234567}

SchedInit ==
    /\ SchedIdle
    /\ DefaultConfig
    /\ now \in ClockDraws
    /\ GenIdle
    /\ store = <<>>
    /\ pool_free = 0
    /\ ConnIdle

SchedCall ==
    /\ sched_pc = "idle"
    /\ \E n \in TotalCounts : EnterScheduler(n)
    /\ UNCHANGED <<configVars, now>>

SchedNext ==
    \/ SchedCall /\ UNCHANGED <<genVars, dbVars, connVars>>
    \/ AllocSecond /\ UNCHANGED <<genVars, dbVars, connVars>>
    \/ AllocLast /\ UNCHANGED <<genVars, dbVars, connVars>>
    \/ GenSecond /\ UNCHANGED <<genVars, dbVars, connVars>>
    \/ SchedReturn /\ UNCHANGED <<genVars, dbVars, connVars>>

SpecSched == SchedInit /\ [][SchedNext]_vars

(***************************************************************************)
(* SpecGen: the generation loop with the scheduler and the bulk loader,    *)
(* started by one POST /stock/generate.  FairSpecGen adds that the loop's task *)
(* is scheduled whenever it can take a step.                               *)
(***************************************************************************)
GenInit ==
    /\ SchedIdle
    /\ DefaultConfig
    /\ now = 0
    /\ gen_tasks = 0
    /\ gen_pc = "off"
    /\ \E r \in BatchRanges : min_batch_size = r[1] /\ max_size = r[2]
    /\ random_batch_size = NoInt
    /\ trades = <<>>
    /\ inserted_count = NoInt
    /\ gen_error = None
    /\ primary_failed = FALSE
    /\ store = <<>>
    /\ pool_free = PoolMaxSize
    /\ ConnIdle

GenNext ==
    \/ (gen_tasks = 0 /\ generate_stock_data) /\ UNCHANGED connVars
    \/ PickBatchSize /\ UNCHANGED connVars
    \/ CallScheduler /\ UNCHANGED connVars
    \/ GenSchedStep /\ UNCHANGED connVars
    \/ SchedulerReturned /\ UNCHANGED connVars
    \/ InsertTradesBatch /\ UNCHANGED connVars
    \/ CopyRecords /\ UNCHANGED connVars
    \/ FallbackAcquire /\ UNCHANGED connVars
    \/ FallbackExecutemany /\ UNCHANGED connVars
    \/ CycleHandler /\ UNCHANGED connVars
    \/ SleepThenNextCycle /\ UNCHANGED connVars

SpecGen == GenInit /\ [][GenNext]_vars

FairSpecGen == SpecGen /\ WF_vars(GenLoopStep /\ UNCHANGED connVars)

(***************************************************************************)
(* SpecTrigger: as SpecGen, with POST /stock/generate called any number of *)
(* times (up to MaxTasks), at any moment.                                  *)
(***************************************************************************)
TriggerNext ==
    \/ generate_stock_data /\ UNCHANGED connVars
    \/ PickBatchSize /\ UNCHANGED connVars
    \/ CallScheduler /\ UNCHANGED connVars
    \/ GenSchedStep /\ UNCHANGED connVars
    \/ SchedulerReturned /\ UNCHANGED connVars
    \/ InsertTradesBatch /\ UNCHANGED connVars
    \/ CopyRecords /\ UNCHANGED connVars
    \/ FallbackAcquire /\ UNCHANGED connVars
    \/ FallbackExecutemany /\ UNCHANGED connVars
    \/ CycleHandler /\ UNCHANGED connVars
    \/ SleepThenNextCycle /\ UNCHANGED connVars

SpecTrigger == GenInit /\ [][TriggerNext]_vars

(***************************************************************************)
(* SpecRecord: the generation loop under configurations whose ranges and   *)
(* lists reach, and pass, the Field constraints of TradeData; batches of   *)
(* one or two records, over a store of no row or one row.                  *)
(***************************************************************************)
Config(tk, tt, mc, cc, pmin, pmax, vmin, vmax) ==
    [ tickers |-> tk, trade_types |-> tt, market_code |-> mc, currency_code |-> cc,
      data_ranges |-> [price_min |-> pmin, price_max |-> pmax,
                       volume_min |-> vmin, volume_max |-> vmax] ]

\* Prices of 10.00 to 10.02 and volumes of 100 to 101, both sides; lower-case
\* ticker and currency; then prices reaching past 10000 and down to 0, volumes
\* reaching down to 0 and past 1000000, a side that is neither BUY nor SELL, a
\* currency of four letters and a ticker of eleven.
Configs ==
    { Config(<<"AAPL">>, <<"BUY", "SELL">>, "NASDAQ", "USD", 10000, 10020, 100, 101),
      Config(<<"aapl">>, <<"BUY">>, "NASDAQ", "usd", 150250, 150250, 100, 100),
      Config(<<"AAPL">>, <<"BUY">>, "NASDAQ", "USD", 9999990, 10000010, 100, 100),
      Config(<<"AAPL">>, <<"BUY">>, "NASDAQ", "USD", 0, 20, 100, 100),
      Config(<<"AAPL">>, <<"BUY">>, "NASDAQ", "USD", 150250, 150250, 0, 1),
      Config(<<"AAPL">>, <<"BUY">>, "NASDAQ", "USD", 150250, 150250, 1000000, 1000001),
      Config(<<"AAPL">>, <<"BUY", "HOLD">>, "NASDAQ", "USD", 150250, 150250, 100, 100),
      Config(<<"AAPL">>, <<"BUY">>, "NASDAQ", "EURO", 150250, 150250, 100, 100),
      Config(<<"AAPL", "ABCDEFGHIJK">>, <<"BUY">>, "NASDAQ", "USD", 150250, 150250, 100, 100) }

RecordInit ==
    /\ SchedIdle
    /\ \E cfg \in Configs :
          /\ tickers = cfg.tickers
          /\ trade_types = cfg.trade_types
          /\ market_code = cfg.market_code
          /\ currency_code = cfg.currency_code
          /\ data_ranges = cfg.data_ranges
    /\ now = 0
    /\ gen_tasks = 0
    /\ gen_pc = "off"
    /\ min_batch_size = 1
    /\ max_size = 2
    /\ random_batch_size = NoInt
    /\ trades = <<>>
    /\ inserted_count = NoInt
    /\ gen_error = None
    /\ primary_failed = FALSE
    /\ store \in {<<>>, <<StoredRow(MicrosPerSecond, 1, 150250)>>}
    /\ pool_free = PoolMaxSize
    /\ ConnIdle

\* The first cycle of the loop, up to its sleep.
RecordNext ==
    \/ (gen_tasks = 0 /\ generate_stock_data) /\ UNCHANGED connVars
    \/ PickBatchSize /\ UNCHANGED connVars
    \/ CallScheduler /\ UNCHANGED connVars
    \/ GenSchedStep /\ UNCHANGED connVars
    \/ SchedulerReturned /\ UNCHANGED connVars
    \/ InsertTradesBatch /\ UNCHANGED connVars
    \/ CopyRecords /\ UNCHANGED connVars
    \/ FallbackAcquire /\ UNCHANGED connVars
    \/ FallbackExecutemany /\ UNCHANGED connVars
    \/ CycleHandler /\ UNCHANGED connVars

SpecRecord == RecordInit /\ [][RecordNext]_vars

(***************************************************************************)
(* SpecConn: one websocket connection over a store that holds no row, one  *)
(* AAPL row or two AAPL rows.                                              *)
(***************************************************************************)
StoreDraws ==
    { <<>>,
      <<StoredRow(MicrosPerSecond, 1, 150250)>>,
      <<StoredRow(MicrosPerSecond, 1, 150250), StoredRow(MicrosPerSecond + 1, 2, 99990)>> }

Served == {"c1"}

ConnInit ==
    /\ SchedIdle
    /\ DefaultConfig
    /\ now = 0
    /\ GenIdle
    /\ store \in StoreDraws
    /\ pool_free = PoolMaxSize
    /\ ConnIdle

ConnNext ==
    \/ \E c \in Served : Connect(c) /\ UNCHANGED <<schedVars, genVars>>
    \/ \E c \in Served : ClientDisconnect(c) /\ UNCHANGED <<schedVars, genVars>>
    \/ \E c \in Served : HandlerFirstMessage(c) /\ UNCHANGED <<schedVars, genVars>>
    \/ \E c \in Served : HandlerFirstMessageRaises(c) /\ UNCHANGED <<schedVars, genVars>>
    \/ \E c \in Served : HandlerTeardown(c) /\ UNCHANGED <<schedVars, genVars>>
    \/ \E c \in Served : HandlerCancelled(c) /\ UNCHANGED <<schedVars, genVars>>
    \/ \E c \in Served : ListenUpdate(c) /\ UNCHANGED <<schedVars, genVars>>
    \/ \E c \in Served : ListenReceiveError(c) /\ UNCHANGED <<schedVars, genVars>>
    \/ \E c \in Served : ListenTimeout(c) /\ UNCHANGED <<schedVars, genVars>>
    \/ \E c \in Served : PushAcquire(c) /\ UNCHANGED <<schedVars, genVars>>
    \/ \E c \in Served : PushFetch(c) /\ UNCHANGED <<schedVars, genVars>>
    \/ \E c \in Served : PushSend(c) /\ UNCHANGED <<schedVars, genVars>>
    \/ \E c \in Served : PushWake(c) /\ UNCHANGED <<schedVars, genVars>>

SpecConn == ConnInit /\ [][ConnNext]_vars

(***************************************************************************)
(* FairSpecConn: SpecConn in which the event loop runs every task that can *)
(* take a step: the push task; the listen task and the handler once their  *)
(* receive has an outcome that does not wait for the client (the           *)
(* connection is closed), and the handler once gather can return.          *)
(***************************************************************************)
PushTaskStep(c) ==
    /\ PushAcquire(c) \/ PushFetch(c) \/ PushSend(c) \/ PushWake(c)
    /\ UNCHANGED <<schedVars, genVars>>

ListenTaskStepOnClosed(c) ==
    /\ ws_state[c] = "closed"
    /\ ListenReceiveError(c)
    /\ UNCHANGED <<schedVars, genVars>>

HandlerStepOnClosed(c) ==
    /\ \/ ws_state[c] = "closed" /\ HandlerFirstMessageRaises(c)
       \/ HandlerTeardown(c)
    /\ UNCHANGED <<schedVars, genVars>>

FairSpecConn ==
    /\ SpecConn
    /\ \A c \in Served : WF_vars(PushTaskStep(c))
    /\ \A c \in Served : WF_vars(ListenTaskStepOnClosed(c))
    /\ \A c \in Served : WF_vars(HandlerStepOnClosed(c))

(***************************************************************************)
(* SpecPair: two websocket connections at once over a store of one AAPL    *)
(* row: each handler up to gather, each listen loop, and the first          *)
(* iteration of each push loop.                                            *)
(***************************************************************************)
PairInit ==
    /\ SchedIdle
    /\ DefaultConfig
    /\ now = 0
    /\ GenIdle
    /\ store = <<StoredRow(MicrosPerSecond, 1, 150250)>>
    /\ pool_free = PoolMaxSize
    /\ ConnIdle

PairNext ==
    \/ \E c \in Conns : Connect(c) /\ UNCHANGED <<schedVars, genVars>>
    \/ \E c \in Conns : HandlerFirstMessage(c) /\ UNCHANGED <<schedVars, genVars>>
    \/ \E c \in Conns : ListenUpdate(c) /\ UNCHANGED <<schedVars, genVars>>
    \/ \E c \in Conns : ListenReceiveError(c) /\ UNCHANGED <<schedVars, genVars>>
    \/ \E c \in Conns : PushAcquire(c) /\ UNCHANGED <<schedVars, genVars>>
    \/ \E c \in Conns : PushFetch(c) /\ UNCHANGED <<schedVars, genVars>>
    \/ \E c \in Conns : PushSend(c) /\ UNCHANGED <<schedVars, genVars>>

SpecPair == PairInit /\ [][PairNext]_vars

(***************************************************************************)
(* SpecPool: the shared pool under load.  One connection and the           *)
(* generation loop (batches of one trade) are followed step by step; the   *)
(* other connections of the process are counted only by the pool members   *)
(* their push loops hold while a send_json of theirs does not complete.    *)
(***************************************************************************)

\* Pool members held by the tasks that are followed step by step.
FollowedHolders ==
    Cardinality({c \in Conns : push_pc[c] \in {"fetch", "send"}})
        + (IF gen_pc \in {"copy", "executemany"} THEN 1 ELSE 0)

\* Pool members held by the push loops of the other connections.
OtherHolders == PoolMaxSize - pool_free - FollowedHolders

\* stream_data of another connection, lines 63-94: it has taken a pool member,
\* run its query, and its send_json is suspended (its client does not read).
OtherStalls ==
    /\ Acquire
    /\ UNCHANGED <<store, schedVars, genVars, connVars>>

\* ... and that send completes or raises: the async with block is left.
OtherResumes ==
    /\ OtherHolders > 0
    /\ Release
    /\ UNCHANGED <<store, schedVars, genVars, connVars>>

PoolInit ==
    /\ SchedIdle
    /\ DefaultConfig
    /\ now = 0
    /\ gen_tasks = 0
    /\ gen_pc = "off"
    /\ min_batch_size = 1
    /\ max_size = 1
    /\ random_batch_size = NoInt
    /\ trades = <<>>
    /\ inserted_count = NoInt
    /\ gen_error = None
    /\ primary_failed = FALSE
    /\ store = <<>>
    /\ pool_free = PoolMaxSize
    /\ ConnIdle

PoolNext ==
    \/ (gen_tasks = 0 /\ generate_stock_data) /\ UNCHANGED connVars
    \/ PickBatchSize /\ UNCHANGED connVars
    \/ CallScheduler /\ UNCHANGED connVars
    \/ GenSchedStep /\ UNCHANGED connVars
    \/ SchedulerReturned /\ UNCHANGED connVars
    \/ InsertTradesBatch /\ UNCHANGED connVars
    \/ CopyRecords /\ UNCHANGED connVars
    \/ FallbackAcquire /\ UNCHANGED connVars
    \/ FallbackExecutemany /\ UNCHANGED connVars
    \/ CycleHandler /\ UNCHANGED connVars
    \/ SleepThenNextCycle /\ UNCHANGED connVars
    \/ \E c \in Served : Connect(c) /\ UNCHANGED <<schedVars, genVars>>
    \/ \E c \in Served : HandlerFirstMessage(c) /\ UNCHANGED <<schedVars, genVars>>
    \/ \E c \in Served : PushAcquire(c) /\ UNCHANGED <<schedVars, genVars>>
    \/ \E c \in Served : PushFetch(c) /\ UNCHANGED <<schedVars, genVars>>
    \/ \E c \in Served : PushSend(c) /\ UNCHANGED <<schedVars, genVars>>
    \/ \E c \in Served : PushWake(c) /\ UNCHANGED <<schedVars, genVars>>
    \/ OtherStalls
    \/ OtherResumes

SpecPool == PoolInit /\ [][PoolNext]_vars

(***************************************************************************)
(* Claims about the scheduler, checked under SpecSched.                    *)
(***************************************************************************)
RECURSIVE SumSeq(_)
SumSeq(q) == IF q = <<>> THEN 0 ELSE q[1] + SumSeq(Tail(q))

\* The window length W: ten one-second buckets.
Buckets == RandomSeconds + 1

SchedAllocated == sched_pc \in {"gen", "return"}

\* C1: for every total_count >= 0 and every sequence of draws the scheduler
\* allocates exactly 10 bucket counts, each >= 0, whose sum is total_count, the
\* last one being what remains after the first 9, and it returns total_count
\* records.
C1_BucketsSumToTotal ==
    trade_transaction_per_second >= 0 =>
        /\ SchedAllocated =>
              /\ Len(second_sizes) = Buckets
              /\ \A i \in 1..Buckets : second_sizes[i] >= 0
              /\ SumSeq(second_sizes) = trade_transaction_per_second
              /\ second_sizes[Buckets] =
                    trade_transaction_per_second
                        - SumSeq(SubSeq(second_sizes, 1, RandomSeconds))
        /\ sched_pc = "return" => Len(all_trades) = trade_transaction_per_second

\* A call has returned whose random seconds took two records in one bucket and
\* left some for the last bucket.
C1_Witness ==
    /\ sched_pc = "return"
    /\ trade_transaction_per_second >= 2
    /\ \E i \in 1..RandomSeconds : second_sizes[i] >= 2
    /\ second_sizes[Buckets] >= 1
    /\ Len(all_trades) = trade_transaction_per_second

\* The bucket index of a trade, counted from 1 through 10.
bucket_index(t) == t.second + 1

\* C2 as stated: every record's event_time lies strictly after T0 + bucket_index
\* seconds and no later than T0 + bucket_index + 1 seconds.
C2_StrictlyAfterBoundary ==
    \A i \in 1..Len(all_trades) :
        LET t == all_trades[i]
        IN  /\ t.event_time > base_time + bucket_index(t) * MicrosPerSecond
            /\ t.event_time <= base_time + (bucket_index(t) + 1) * MicrosPerSecond

\* C2 amended: every record's event_time lies at or after T0 + bucket_index
\* seconds (a record can be stamped exactly on the whole-second boundary) and
\* no later than T0 + bucket_index + 1 seconds, hence never at T0 or earlier.
C2_AtOrAfterBoundary ==
    \A i \in 1..Len(all_trades) :
        LET t == all_trades[i]
        IN  /\ bucket_index(t) \in 1..Buckets
            /\ t.event_time >= base_time + bucket_index(t) * MicrosPerSecond
            /\ t.event_time <= base_time + (bucket_index(t) + 1) * MicrosPerSecond
            /\ t.event_time > base_time

\* A returned batch holds a record stamped exactly on its bucket's boundary and
\* one stamped inside its bucket.
C2_Witness ==
    /\ sched_pc = "return"
    /\ \E i \in 1..Len(all_trades) :
          all_trades[i].event_time
              = base_time + bucket_index(all_trades[i]) * MicrosPerSecond
    /\ \E i \in 1..Len(all_trades) :
          all_trades[i].event_time
              > base_time + bucket_index(all_trades[i]) * MicrosPerSecond

(***************************************************************************)
(* Claims about the bulk loader and the generation loop, checked under     *)
(* SpecGen (C5 under FairSpecGen).                                         *)
(***************************************************************************)

\* The step in which the primary (COPY) path of insert_trades_batch fails.
PrimaryFails == gen_pc \in {"insert", "copy"} /\ ~primary_failed /\ primary_failed'

\* insert_trades_batch has returned a count through the fallback.
FallbackSucceeded == gen_pc = "sleep" /\ primary_failed /\ inserted_count # NoInt

InFallback == gen_pc \in {"fallback", "executemany"}
FallbackOutcomes == {"fallback", "executemany", "sleep", "handler"}

\* C3: whenever the primary path fails for a non-empty batch the fallback is
\* invoked with the same records, and if the fallback succeeds the count
\* returned is the input length and every input record is in the store.
C3_FallbackInsertsAll ==
    /\ [][PrimaryFails => (trades # <<>> /\ gen_pc' = "fallback" /\ trades' = trades)]_vars
    /\ [][InFallback => (trades' = trades /\ gen_pc' \in FallbackOutcomes)]_vars
    /\ [](FallbackSucceeded =>
            /\ inserted_count = Len(trades)
            /\ \A i \in 1..Len(trades) : Row(to_tuple(trades[i])) \in Range(store))

\* A batch of two records went into the store through the fallback.
C3_Witness ==
    /\ FallbackSucceeded
    /\ Len(trades) >= 2
    /\ \A i \in 1..Len(trades) : Row(to_tuple(trades[i])) \in Range(store)

\* The step in which the fallback path fails.
FallbackFails == gen_pc \in {"fallback", "executemany"} /\ gen_error = None /\ gen_error' # None

\* The fallback is left and the batch's rows are not in the store.
FallbackEndsWithoutRows ==
    /\ gen_pc \in {"fallback", "executemany"}
    /\ gen_pc' \notin {"fallback", "executemany"}
    /\ store' = store

ErrorReachesHandler ==
    /\ primary_failed
    /\ gen_pc' = "handler"
    /\ inserted_count' = NoInt
    /\ store' = store

\* C4: if the primary path and the fallback both fail, insert_trades_batch
\* returns no count and the error reaches the loop's per-cycle handler, which
\* ends neither the loop nor the process: the cycle goes on to its sleep.
C4_DoubleFailureIsNotFatal ==
    /\ [][FallbackFails => ErrorReachesHandler]_vars
    /\ [][FallbackEndsWithoutRows => ErrorReachesHandler]_vars
    /\ [][gen_pc = "handler" => gen_pc' \in {"handler", "sleep"}]_vars
    /\ [](gen_pc = "handler" => inserted_count = NoInt)

\* Both paths have failed for a non-empty batch and the cycle has reached its sleep.
C4_Witness ==
    /\ gen_pc = "sleep"
    /\ primary_failed
    /\ gen_error = "Exception"
    /\ trades # <<>>
    /\ inserted_count = NoInt

GenStarted == gen_pc # "off"

\* C5: the generation loop never ends by itself: every cycle, whether it
\* succeeded or raised, reaches the sleep, and after the sleep another cycle
\* starts.
C5_LoopNeverEnds ==
    /\ [][GenStarted => GenStarted']_vars
    /\ GenStarted ~> (gen_pc = "sleep")
    /\ (gen_pc = "sleep") ~> (gen_pc = "pick")

\* A cycle that raised (the batch-size range was empty) was followed by a sleep
\* and a new cycle.
C5_Witness ==
    /\ gen_pc = "pick"
    /\ now > 0
    /\ min_batch_size > max_size

ReturnsZeroUntouched ==
    /\ gen_pc' = "sleep"
    /\ inserted_count' = 0
    /\ gen_error' = None
    /\ ~primary_failed'
    /\ pool_free' = pool_free
    /\ store' = store

\* The loader is past its entry: it holds or awaits a pool member, or it raised.
InLoaderPastEntry ==
    \/ gen_pc \in {"copy", "fallback", "executemany"}
    \/ gen_pc = "handler" /\ gen_error = "Exception"

\* C6: insert_trades_batch of an empty sequence returns 0, raises nothing,
\* acquires no pool member and leaves the store unchanged.
C6_EmptyBatchIsNoOp ==
    /\ [][(gen_pc = "insert" /\ trades = <<>>) => ReturnsZeroUntouched]_vars
    /\ [](InLoaderPastEntry => trades # <<>>)

\* An empty batch was handed to the loader while the store held rows, and 0 came back.
C6_Witness ==
    /\ gen_pc = "sleep"
    /\ trades = <<>>
    /\ random_batch_size = 0
    /\ inserted_count = 0
    /\ store # <<>>
    /\ pool_free = PoolMaxSize

(***************************************************************************)
(* Claims about the tick stream coordinator, checked under SpecConn.       *)
(***************************************************************************)

\* The step in which the handler starts the two tasks.
TasksStart(c) == h_pc[c] = "await_first" /\ h_pc'[c] = "gather"

StartsFromFirstMessage(c) ==
    /\ first_msg'[c] # <<>>
    /\ ticker'[c] = first_msg'[c][1].ticker
    /\ tick'[c] = first_msg'[c][1].tick
    /\ listen_pc'[c] = "recv"
    /\ push_pc'[c] = "acquire"

\* C7: on every connection no tick message is sent and neither loop is started
\* before the first control message has been received, and the initial
\* subscription is that message's ticker and tick.
C7_FirstMessageEstablishesSubscription ==
    /\ [](\A c \in Conns :
            first_msg[c] = <<>> =>
                listen_pc[c] = "none" /\ push_pc[c] = "none" /\ sent[c] = <<>>)
    /\ [][\A c \in Conns : TasksStart(c) => StartsFromFirstMessage(c)]_vars

\* Both loops have just been started from the first message {MSFT, 2}.
C7_Witness ==
    /\ first_msg["c1"] = <<[ticker |-> "MSFT", tick |-> 2]>>
    /\ ticker["c1"] = "MSFT"
    /\ tick["c1"] = 2
    /\ listen_pc["c1"] = "recv"
    /\ push_pc["c1"] = "acquire"
    /\ sent["c1"] = <<>>

\* C8 as stated: when the store holds no record for the subscribed ticker, the
\* message sent is a candle_tick whose data field is null, carrying the ticker
\* and current_tick.
C8_NoRecordSendsNullData ==
    \A c \in Conns :
        (sent[c] # <<>> /\ sent[c][1].rows = <<>>) =>
            /\ sent[c][1].msg.type = "candle_tick"
            /\ "ticker" \in DOMAIN sent[c][1].msg
            /\ "current_tick" \in DOMAIN sent[c][1].msg
            /\ "data" \in DOMAIN sent[c][1].msg
            /\ sent[c][1].msg.data = None

\* The listen loop's wait has just timed out.
TimedOut(c) == listen_timeouts'[c] = listen_timeouts[c] + 1

KeepsListening(c) ==
    /\ listen_pc'[c] = "recv"
    /\ ticker'[c] = ticker[c]
    /\ tick'[c] = tick[c]
    /\ h_pc'[c] = h_pc[c]
    /\ h_pc'[c] = "gather"
    /\ push_pc'[c] = push_pc[c]
    /\ ws_state'[c] = ws_state[c]

\* C9: when the listen loop's 60-second wait times out, the loop does not end,
\* the subscription is unchanged, no teardown is triggered and the loop waits
\* again, after any number of consecutive timeouts.
C9_TimeoutKeepsListening ==
    [][\A c \in Conns : TimedOut(c) => KeepsListening(c)]_vars

\* The listen loop waits again after MaxTimeouts consecutive timeouts.
C9_Witness ==
    /\ listen_timeouts["c1"] = MaxTimeouts
    /\ listen_timeouts["c1"] >= 2
    /\ listen_pc["c1"] = "recv"
    /\ h_pc["c1"] = "gather"
    /\ ws_state["c1"] = "open"

\* The push loop starts a store read, or completes a send.
PushGoesOn(c) ==
    \/ push_pc[c] = "acquire" /\ push_pc'[c] = "fetch"
    \/ push_pc[c] = "send" /\ push_pc'[c] = "sleep"

\* C10 as stated: once the listen loop has exited on a receive error, the push
\* loop is cancelled and runs no further read-and-send iteration, whether or
\* not it meets an error of its own.
C10_ListenExitStopsPush ==
    [][\A c \in Conns : listen_pc[c] = "done" => ~PushGoesOn(c)]_vars

\* The listen loop is waiting on an intact transport and is not cancelled.
ListensOnIntactTransport(c) ==
    /\ listen_pc[c] = "recv"
    /\ ws_state[c] = "open"
    /\ h_pc'[c] = "gather"

\* C11 as stated: while the transport is intact, whatever frame the listen loop
\* receives (a malformed one included: no JSON, or ticker or tick missing), the
\* loop does not end: it goes on waiting for later control messages.
C11_MalformedMessageIsDiscarded ==
    [][\A c \in Conns : ListensOnIntactTransport(c) => listen_pc'[c] = "recv"]_vars

\* The push loop starts an iteration's store read / completes an iteration's send.
PushReads(c) == push_pc[c] = "acquire" /\ push_pc'[c] = "fetch"
PushEmits(c) == push_pc[c] = "send" /\ push_pc'[c] = "sleep"

\* The part of C12 about single iterations: the store is read for the ticker the
\* subscription holds when the read starts, and the message is labelled with the
\* ticker and tick the subscription holds when it is sent.
IterationUsesCurrentSubscription ==
    /\ [][\A c \in Conns : PushReads(c) => queried'[c] = ticker[c]]_vars
    /\ [][\A c \in Conns : PushEmits(c) =>
              (sent'[c][1].msg.ticker = ticker[c] /\ sent'[c][1].msg.current_tick = tick[c])]_vars

\* The first tick message of the connection is emitted.
FirstEmission(c) == sent[c] = <<>> /\ sent'[c] # <<>>

\* C12 as stated, scenario B: the client's first message names one ticker and a
\* later one another; at least one tick of the first ticker is emitted before
\* the first tick of the second, so the first tick emitted on the connection
\* carries the first message's ticker.
C12_FirstTickerEmittedFirst ==
    [][\A c \in Conns :
          FirstEmission(c) => sent'[c][1].msg.ticker = first_msg[c][1].ticker]_vars

\* No loop task of the connection is running and no pool member is held for it.
NoTaskLeft(c) ==
    /\ listen_pc[c] \in {"none", "done"}
    /\ push_pc[c] \in {"none", "done"}
    /\ queried[c] = None

\* C13 as stated: every accepted connection whose handler has returned has had
\* exactly one teardown, and no loop task is left running.
C13_TeardownExactlyOnce ==
    \A c \in Conns :
        /\ teardowns[c] <= 1
        /\ h_pc[c] = "done" => (teardowns[c] = 1 /\ NoTaskLeft(c))

\* C13 amended: teardown never runs twice; a connection whose loops were started
\* (its first control message was received) has had exactly one teardown when
\* its handler has returned, with both tasks finished, whether they ended by
\* themselves or by cancellation; a connection whose first receive failed has
\* started no task and its handler has returned without a teardown; no loop
\* task is ever left running after the handler has returned.
C13_TeardownOnceIfLoopsStarted ==
    \A c \in Conns :
        /\ teardowns[c] <= 1
        /\ teardowns[c] = 1 => h_pc[c] = "done"
        /\ h_pc[c] = "done" =>
              /\ NoTaskLeft(c)
              /\ first_msg[c] # <<>> =>
                    (teardowns[c] = 1 /\ listen_pc[c] = "done" /\ push_pc[c] = "done")
              /\ first_msg[c] = <<>> =>
                    (teardowns[c] = 0 /\ listen_pc[c] = "none" /\ push_pc[c] = "none")

\* The handler has returned after one teardown that ended a push loop which had
\* sent a message and met no error of its own (it was cancelled).
C13_Witness ==
    /\ h_pc["c1"] = "done"
    /\ teardowns["c1"] = 1
    /\ listen_pc["c1"] = "done"
    /\ push_pc["c1"] = "done"
    /\ push_error["c1"] = None
    /\ sent["c1"] # <<>>

\* The push loop's store read is in progress and the loop is not cancelled.
ReadsStoreUncancelled(c) ==
    /\ push_pc[c] = "fetch"
    /\ h_pc'[c] = "gather"

\* C14 as stated: a store read of the push loop that fails on an intact
\* transport does not end the loop (the tick is skipped and the loop goes on);
\* only cancellation from outside ends it.
C14_StoreErrorSkipsTick ==
    [][\A c \in Conns :
          (ReadsStoreUncancelled(c) /\ ws_state[c] = "open") => push_pc'[c] # "done"]_vars

\* The listen loop completes another wait: a timeout, or a control message applied.
ListenGoesOn(c) ==
    /\ listen_pc[c] = "recv"
    /\ listen_pc'[c] = "recv"
    /\ \/ listen_timeouts'[c] # listen_timeouts[c]
       \/ ticker'[c] # ticker[c]
       \/ tick'[c] # tick[c]

\* C15 as stated: once a failed send has ended the push loop, the listen loop is
\* cancelled (it completes no further wait, although its own receive does not
\* fail) and the session is torn down.
C15_SendFailureTearsDown ==
    [][\A c \in Conns : push_error[c] = "TransportError" => ~ListenGoesOn(c)]_vars

\* The tasks that are in the middle of a store read or write.
StoreAccessors ==
    Cardinality({c \in Conns : push_pc[c] = "fetch"})
        + (IF gen_pc \in {"copy", "executemany"} THEN 1 ELSE 0)

\* C16 as stated: every pool member that is not free is held by a task in the
\* middle of a single store read or write; none is held by a task that sleeps,
\* waits for a control message or sends a tick message.
C16_PoolHeldOnlyForStoreAccess == pool_free = PoolMaxSize - StoreAccessors

(***************************************************************************)
(* Claims about several connections, checked under SpecPair.               *)
(***************************************************************************)

SubscriptionChanges(c) == ticker'[c] # ticker[c] \/ tick'[c] # tick[c]

\* The step is one of c's handler reading the first message, or of c's listen loop.
OwnHandlerOrListenStep(c) ==
    \/ h_pc[c] = "await_first" /\ h_pc'[c] = "gather"
    \/ listen_pc[c] = "recv" /\ ws_state[c] = "open"

\* C17: with two connections open, a step that changes the subscription of one
\* connection is a step of that connection's own listen loop (or of its handler
\* establishing the initial subscription), and it leaves the subscription of
\* every other connection unchanged.
C17_SubscriptionIsolation ==
    [][\A a \in Conns : SubscriptionChanges(a) =>
          (OwnHandlerOrListenStep(a) /\ \A b \in Conns \ {a} : ~SubscriptionChanges(b))]_vars

\* Both connections are open; c1 has been reconfigured from AAPL/1 to MSFT/2
\* while c2 still holds the AAPL/1 of its first message.
C17_Witness ==
    /\ h_pc["c1"] = "gather" /\ h_pc["c2"] = "gather"
    /\ listen_pc["c1"] = "recv" /\ listen_pc["c2"] = "recv"
    /\ first_msg["c1"] = <<[ticker |-> "AAPL", tick |-> 1]>>
    /\ first_msg["c2"] = <<[ticker |-> "AAPL", tick |-> 1]>>
    /\ ticker["c1"] = "MSFT" /\ tick["c1"] = 2
    /\ ticker["c2"] = "AAPL" /\ tick["c2"] = 1

(***************************************************************************)
(* Claims about the shared pool, checked under SpecPool.                   *)
(***************************************************************************)

\* A push loop or the Bulk Loader is about to take a pool member.
NeedsPoolMember ==
    \/ \E c \in Conns : push_pc[c] = "acquire"
    \/ gen_pc = "insert" /\ trades # <<>>
    \/ gen_pc = "fallback"

\* C18 as stated: whatever fails or stalls inside connections (a send that never
\* completes included), a push loop or the generation loop that needs a pool
\* member is not kept from going on: a member is free, or one is held by a task
\* in the middle of a store read or write, which gives it back.
C18_StallsAreContained ==
    NeedsPoolMember => (pool_free > 0 \/ StoreAccessors > 0)

(***************************************************************************)
(* Claim about the batch-trigger interface, checked under SpecTrigger.     *)
(***************************************************************************)

\* C19 as stated: however often and whenever POST /stock/generate is called, at
\* most one generation loop has been started (and so runs) in the process.
C19_AtMostOneGenerationLoop == gen_tasks <= 1

(***************************************************************************)
(* Claim about the scheduler's argument, checked under SpecSched.          *)
(***************************************************************************)

\* C20 as stated: a call of the scheduler with a negative total count fails
\* with an error; it never returns a list of records, empty or not.
C20_NegativeTotalIsRejected ==
    sched_pc = "return" => trade_transaction_per_second >= 0

(***************************************************************************)
(* Claims about the records the generator returns, checked under           *)
(* SpecRecord.                                                             *)
(***************************************************************************)

\* The records generate_distributed_trades has built or returned.
Built == Range(all_trades) \cup Range(trades)

\* The constraints of a record that do not involve the configured price range.
RecordConstraints(t) ==
    /\ t.price % MillsPerCent = 0
    /\ t.price > 0 /\ t.price <= PriceLe
    /\ t.volume \in data_ranges.volume_min..data_ranges.volume_max
    /\ t.volume > 0 /\ t.volume <= VolumeLe
    /\ t.trade_type \in {"BUY", "SELL"}
    /\ Len(t.ticker) \in 1..TickerMaxLength /\ upper(t.ticker) = t.ticker
    /\ Len(t.currency_code) = CurrencyCodeLength
    /\ upper(t.currency_code) = t.currency_code
    \* not clamped: the price is a sampled one, rounded
    /\ t.price \in {s.price : s \in Samples}

NonEmptyPriceRange == data_ranges.price_min < data_ranges.price_max

InsertReturned == gen_pc = "sleep" /\ inserted_count # NoInt /\ trades # <<>>

\* SELECT * FROM stock_trades WHERE trade_id = id.
ReadBack(id) == {i \in 1..Len(store) : store[i].trade_id = id}

\* C22 as stated: after insert_trades_batch returns a count n for a batch, by
\* the primary path or by the fallback, n is the batch length and reading back
\* by trade_id yields, for each record of the batch, a single row, equal to the
\* record in all nine fields.
C22_BatchStoredExactlyOnce ==
    InsertReturned =>
        /\ inserted_count = Len(trades)
        /\ \A i \in 1..Len(trades) :
              /\ Cardinality(ReadBack(trades[i].trade_id)) = 1
              /\ \A j \in ReadBack(trades[i].trade_id) :
                    to_tuple(store[j]) = to_tuple(trades[i])

(***************************************************************************)
(* Claims about the subscription shared by the two loops, checked under    *)
(* SpecConn.                                                               *)
(***************************************************************************)

\* A step of c's listen loop (not the handler's cancellation).
ListenStep(c) == listen_pc[c] = "recv" /\ h_pc[c] = "gather" /\ h_pc'[c] = "gather"

\* Neither field of the subscription changes.
SubscriptionKept(c) == ticker'[c] = ticker[c] /\ tick'[c] = tick[c]

\* Both fields take the values of the message just received, which has both.
SubscriptionTaken(c) ==
    /\ tick_update'[c] # <<>>
    /\ HasKey(tick_update'[c][1], "ticker")
    /\ HasKey(tick_update'[c][1], "tick")
    /\ ticker'[c] = tick_update'[c][1].ticker
    /\ tick'[c] = tick_update'[c][1].tick

SubscriptionAtomic(c) == ListenStep(c) => (SubscriptionKept(c) \/ SubscriptionTaken(c))

\* C23 as stated: handling one control message in the listen loop either gives
\* both ticker and tick the message's values or changes neither, a message
\* with a ticker and no tick included, so that the push loop never sees the new
\* ticker with the old tick.
C23_SubscriptionUpdateIsAtomic == [][\A c \in Served : SubscriptionAtomic(c)]_vars

\* C24 as stated: under any interleaving with the listen loop, the ticker named
\* in a tick message is the ticker whose latest price was read from the store
\* for that message (one snapshot of the subscription serves the whole
\* iteration of the push loop).
C24_MessageNamesQueriedTicker ==
    \A c \in Served : sent[c] # <<>> => sent[c][1].msg.ticker = sent[c][1].queried

(***************************************************************************)
(* Claim about the order of the scheduler's output, checked under          *)
(* SpecSched.                                                              *)
(***************************************************************************)

\* The positions of the output that hold the records of bucket b.
PositionsOf(b) == {p \in 1..Len(all_trades) : bucket_index(all_trades[p]) = b}

\* C25: the list the scheduler returns is the concatenation of the per-bucket
\* records in bucket order: of two records at positions p < q the one at p has
\* the lower or the same bucket index, and every bucket contributes as many
\* records as it was allocated.
C25_RecordsInBucketOrder ==
    /\ \A p, q \in 1..Len(all_trades) :
          p < q => bucket_index(all_trades[p]) <= bucket_index(all_trades[q])
    /\ sched_pc = "return" =>
          \A b \in 1..Len(second_sizes) :
              Cardinality(PositionsOf(b)) = Max(0, second_sizes[b])

\* A returned batch holds records of two buckets, and two records of one bucket
\* of which the earlier in the list has the later event_time.
C25_Witness ==
    /\ sched_pc = "return"
    /\ \E p, q \in 1..Len(all_trades) :
          p < q /\ bucket_index(all_trades[p]) < bucket_index(all_trades[q])
    /\ \E p, q \in 1..Len(all_trades) :
          /\ p < q
          /\ bucket_index(all_trades[p]) = bucket_index(all_trades[q])
          /\ all_trades[p].event_time > all_trades[q].event_time

(***************************************************************************)
(* Claim about the windows of successive cycles, checked under SpecGen.    *)
(***************************************************************************)

\* The loop passes from one cycle, whose scheduler call read the clock at now,
\* to the next, whose call reads it at now'.
NextCycleStarts == gen_pc = "sleep" /\ gen_pc' = "pick" /\ now' # now

\* The event-time window of a cycle whose base time is t: it starts at this
\* reading (exclusive) and ends at the other.
WindowStart(t) == t + MicrosPerSecond
WindowEnd(t) == t + (Buckets + 1) * MicrosPerSecond

\* C26 as stated: with distribution_seconds equal to the window length, the
\* windows of successive cycles do not overlap (every event_time of cycle k+1
\* is later than every event_time of cycle k) and leave no gap between them:
\* the window of cycle k+1 starts where the window of cycle k ends.
C26_WindowsAbut ==
    [][NextCycleStarts => WindowStart(now') = WindowEnd(now)]_vars

(***************************************************************************)
(* Claim about a batch that fails validation, checked under SpecRecord.    *)
(***************************************************************************)

\* The construction of a record of this cycle's batch has failed validation.
ValidationFailed == sched_pc = "raised" \/ gen_error = "ValidationError"

\* No record of the batch has been, or is being, passed to the bulk loader.
NothingPassedToLoader ==
    /\ trades = <<>>
    /\ gen_pc \in {"generate", "handler", "sleep"}
    /\ inserted_count = NoInt
    /\ ~primary_failed

StoreKept == (ValidationFailed \/ ValidationFailed') => store' = store

StoreWrittenAfterGeneration ==
    store' # store => (trades # <<>> /\ sched_pc = "idle" /\ gen_error = None)

\* C27: batch generation in a cycle is all-or-nothing with respect to the
\* store: if constructing any record of the batch fails validation, no record
\* of that batch is passed to the bulk loader, and the store is not changed by
\* that cycle (it is written only after a generation that did not fail).
C27_FailedBatchLeavesStoreAlone ==
    /\ [](ValidationFailed => NothingPassedToLoader)
    /\ [][StoreKept]_vars
    /\ [][StoreWrittenAfterGeneration]_vars

\* The scheduler has raised on a record after it had built another one of the
\* same batch, over a store that holds a row and has room for more.
C27_Witness ==
    /\ sched_pc = "raised"
    /\ gen_pc = "generate"
    /\ all_trades # <<>>
    /\ store # <<>>
    /\ StoreAccepts(all_trades)

(***************************************************************************)
(* Claim about a connection whose client has gone, checked under           *)
(* FairSpecConn.                                                           *)
(***************************************************************************)

\* The client of c has disconnected and c's handler has not returned.
Disconnected(c) == ws_state[c] = "closed" /\ h_pc[c] \in {"await_first", "gather"}

\* The handler of c has returned, no task of c is left, and no pool member is
\* held.
TornDown(c) == h_pc[c] = "done" /\ NoTaskLeft(c) /\ pool_free = PoolMaxSize

\* C28: after a client disconnects, both the listen task and the push task
\* eventually finish, the handler's teardown completes, and no pool member
\* stays held by that connection.
C28_DisconnectLeadsToTeardown ==
    \A c \in Served : Disconnected(c) ~> TornDown(c)

\* The client has disconnected while both loops ran; the listen loop has ended
\* on its failed receive and the push loop on its failed send, and gather is
\* about to return.
C28_Witness ==
    /\ Disconnected("c1")
    /\ h_pc["c1"] = "gather"
    /\ listen_pc["c1"] = "done"
    /\ push_pc["c1"] = "done"
    /\ push_error["c1"] = "TransportError"
    /\ sent["c1"] # <<>>
    /\ pool_free = PoolMaxSize

====
